---- MODULE Spec2Model ----
(***************************************************************************)
(* Glowmarkt integration: the reading fetcher (glowmarkt_api.py) and the   *)
(* historical-data reconciliation (sensor.py inject_historical_data).      *)
(*                                                                         *)
(* Quantities are fixed point: an integer n stands for n * 0.0001 (kWh, m3 *)
(* or GBP).  A value rounded to 3 decimals is a multiple of 10.  Raw cost  *)
(* readings are whole pence.  A reading's datetime is a count of minutes;  *)
(* an hour is the index datetime \div 60.                                  *)
(***************************************************************************)
EXTENDS Integers, Sequences, FiniteSets, TLC

VARIABLES
    now,                     \* wall clock, in whole hours (datetime.utcnow())
    token,                   \* GlowmarktAPI.token: "none" or "tok"
    token_valid,             \* server side: the cached token is still accepted
    initial_load_completed,  \* GlowmarktAPI.initial_load_completed
    data,                    \* coordinator.data: None or the readings dict
    entities,                \* sensors registered by async_setup_entry
    store,                   \* recorder statistics: statistic_id -> start -> row
    polls,                   \* calls of get_hourly_readings so far
    hist,                    \* history: the answers behind data, revisions so far
    last,                    \* history: what the most recent handler did
    tasks                    \* update_historical_data tasks suspended at an await

vars == <<now, token, token_valid, initial_load_completed, data, entities, store, polls, hist, last, tasks>>

\* ---------------------------------------------------------------- bounds
\* The clock runs from hour 1 to hour MaxNow; readings exist for hours >= 0.
MaxNow == 2

\* At most MaxPolls calls of get_hourly_readings are explored.
MaxPolls == 2

\* The minute of the hour at which the polls run.
PollMinute == 37

\* At most MaxTasks update_historical_data tasks are in flight at a time.
MaxTasks == 2

\* ------------------------------------------------------- program constants
Epsilon == 10          \* 0.001, the change threshold
WindowSpan == 23       \* hours between start_date and end_date
StatsLimit == 1000     \* rows asked of get_last_statistics

\* coordinator.data before the first successful refresh
None == [loaded |-> FALSE, gas |-> << >>, electricity |-> << >>]

\* The entities list built by async_setup_entry, in its order.
SensorTypes ==
    << "gas_consumption", "gas_cost", "electricity_consumption", "electricity_cost" >>

Sensors == { SensorTypes[i] : i \in 1..Len(SensorTypes) }

\* sensor._sensor_type.split('_')[0] and [1]
ResourceTypeOf(sensor_type) ==
    IF sensor_type \in {"gas_consumption", "gas_cost"} THEN "gas" ELSE "electricity"

DataTypeOf(sensor_type) ==
    IF sensor_type \in {"gas_cost", "electricity_cost"} THEN "cost" ELSE "consumption"

\* ------------------------------------------------------------ arithmetic
Abs(x) == IF x < 0 THEN -x ELSE x

\* round(x, 3): to the nearest multiple of 0.001 (no input of the model lies
\* half way between two multiples).
Round3(x) == ((x + 5) \div 10) * 10

\* The raw cost value taken as pounds: no "/ 100".
PenceUnconverted(p) == p * 10000

\* value / 100: pence to pounds.  p pence are p * 0.01 GBP = p * 100 units.
PenceToPounds(p) == (p * 10000) \div 100

\* timestamp.replace(minute=0, second=0, microsecond=0)
TruncateToHour(t) == t \div 60

EmptyMap == [t \in {} |-> 0]

\* sorted(S) for a set of hours
RECURSIVE SortedSeq(_)
SortedSeq(S) ==
    IF S = {} THEN << >>
    ELSE LET m == CHOOSE x \in S : \A y \in S : x <= y
         IN  << m >> \o SortedSeq(S \ {m})

\* ------------------------------------------- sensor.py: the reconciliation
\* get_last_statistics(hass, 1000, statistic_id, True, {"state","sum","start"})
\* and the dict built from it: the last n rows, keyed by start.
LastStatistics(rows, n) ==
    LET keep == { t \in DOMAIN rows : Cardinality({ u \in DOMAIN rows : u > t }) < n }
    IN  [t \in keep |-> rows[t]]

\* sorted(data[resource_type], key=lambda x: x["datetime"])
RECURSIVE SortedReadings(_)
SortedReadings(readings) ==
    IF readings = << >> THEN << >>
    ELSE LET i == CHOOSE k \in 1..Len(readings) :
                     \A j \in 1..Len(readings) :
                         readings[k].datetime < readings[j].datetime
                         \/ (readings[k].datetime = readings[j].datetime /\ k <= j)
             rest == [k \in 1..(Len(readings) - 1) |->
                         IF k < i THEN readings[k] ELSE readings[k + 1]]
         IN  << readings[i] >> \o SortedReadings(rest)

\* AddReading with one bucket per raw timestamp: no truncation to the hour.
AddReadingPerTimestamp(hourly_data, reading, data_type) ==
    LET raw   == reading[data_type]
        value == IF data_type = "cost" THEN PenceToPounds(raw) ELSE raw
        old   == IF reading.datetime \in DOMAIN hourly_data
                 THEN hourly_data[reading.datetime] ELSE 0
    IN  [t \in DOMAIN hourly_data \cup {reading.datetime} |->
            IF t = reading.datetime THEN old + value ELSE hourly_data[t]]

\* One turn of the aggregation loop: hourly_data[hourly_timestamp] += value.
\* Every entry carries both keys, so reading.get(data_type) is never None.
AddReading(hourly_data, reading, data_type) ==
    LET hourly_timestamp == TruncateToHour(reading.datetime)
        raw   == reading[data_type]
        value == IF data_type = "cost" THEN PenceToPounds(raw) ELSE raw
        old   == IF hourly_timestamp \in DOMAIN hourly_data
                 THEN hourly_data[hourly_timestamp] ELSE 0
    IN  [t \in DOMAIN hourly_data \cup {hourly_timestamp} |->
            IF t = hourly_timestamp THEN old + value ELSE hourly_data[t]]

RECURSIVE HourlyData(_, _, _)
HourlyData(sorted_readings, data_type, hourly_data) ==
    IF sorted_readings = << >> THEN hourly_data
    ELSE HourlyData(Tail(sorted_readings), data_type,
                    AddReading(hourly_data, Head(sorted_readings), data_type))

\* last_known_sum before the loop: 0, or the rounded sum of the latest row.
InitialLastKnownSum(existing_stats_dict) ==
    IF DOMAIN existing_stats_dict = {} THEN 0
    ELSE LET last_start == CHOOSE t \in DOMAIN existing_stats_dict :
                               \A u \in DOMAIN existing_stats_dict : u <= t
         IN  Round3(existing_stats_dict[last_start].sum)

\* The comparison with every persisted hour taken as changed.
ValueChangedAlways(existing_value, value) == TRUE

\* abs(existing_value - value) > 0.001.  In binary floating point the outcome
\* at a difference of exactly 0.001 depends on the operands; for the bucket
\* values of this model (0.003, 0.004, 0.005) it is false, as it is here.
ValueChanged(existing_value, value) == Abs(existing_value - value) > Epsilon

\* NewSum with an unchanged hour given the running sum instead of its own.
NewSumKeepRunning(timestamp, value, existing_stats_dict, last_known_sum) ==
    IF timestamp \in DOMAIN existing_stats_dict
    THEN LET existing_value == existing_stats_dict[timestamp].state
         IN  IF ValueChanged(existing_value, value)
             THEN Round3(last_known_sum + (value - existing_value))
             ELSE last_known_sum
    ELSE Round3(last_known_sum + value)

\* NewSum with a new hour's sum replayed from zero instead of continuing from
\* last_known_sum.
NewSumFromZero(timestamp, value, existing_stats_dict, last_known_sum) ==
    IF timestamp \in DOMAIN existing_stats_dict
    THEN LET existing_value == existing_stats_dict[timestamp].state
             existing_sum   == existing_stats_dict[timestamp].sum
         IN  IF ValueChanged(existing_value, value)
             THEN Round3(last_known_sum + (value - existing_value))
             ELSE existing_sum
    ELSE Round3(value)

\* The three branches that compute new_sum for one hour.
NewSum(timestamp, value, existing_stats_dict, last_known_sum) ==
    IF timestamp \in DOMAIN existing_stats_dict
    THEN LET existing_value == existing_stats_dict[timestamp].state
             existing_sum   == existing_stats_dict[timestamp].sum
         IN  IF ValueChanged(existing_value, value)
             THEN Round3(last_known_sum + (value - existing_value))
             ELSE existing_sum
    ELSE Round3(last_known_sum + value)

\* for timestamp, value in sorted(hourly_data.items()): ... statistics.append
RECURSIVE Reconcile(_, _, _, _)
Reconcile(timestamps, hourly_data, existing_stats_dict, last_known_sum) ==
    IF timestamps = << >> THEN << >>
    ELSE LET timestamp == Head(timestamps)
             value     == Round3(hourly_data[timestamp])
             new_sum   == NewSum(timestamp, value, existing_stats_dict, last_known_sum)
         IN  << [start |-> timestamp, state |-> value, sum |-> new_sum] >>
             \o Reconcile(Tail(timestamps), hourly_data, existing_stats_dict, new_sum)

\* The batch of a sensor: hourly_data of the coordinator's readings.
Batch(sensor_type, readings) ==
    HourlyData(SortedReadings(readings[ResourceTypeOf(sensor_type)]),
               DataTypeOf(sensor_type), EmptyMap)

\* The statistics list inject_historical_data builds for one sensor.
Statistics(sensor_type, readings, rows) ==
    LET existing_stats_dict == LastStatistics(rows, StatsLimit)
        hourly_data == Batch(sensor_type, readings)
    IN  Reconcile(SortedSeq(DOMAIN hourly_data), hourly_data, existing_stats_dict,
                  InitialLastKnownSum(existing_stats_dict))

\* The import as a replacement of the series: only the imported rows remain.
ImportStatisticsReplace(rows, statistics) ==
    LET starts == { statistics[i].start : i \in 1..Len(statistics) }
    IN  [t \in starts |->
            LET i == CHOOSE k \in 1..Len(statistics) : statistics[k].start = t
            IN  [state |-> statistics[i].state, sum |-> statistics[i].sum]]

\* async_import_statistics: insert each row, or overwrite the row of its start.
ImportStatistics(rows, statistics) ==
    LET starts == { statistics[i].start : i \in 1..Len(statistics) }
        RowOf(t) == LET i == CHOOSE k \in 1..Len(statistics) :
                                 statistics[k].start = t
                                 /\ \A j \in 1..Len(statistics) :
                                        statistics[j].start = t => j <= k
                    IN  [state |-> statistics[i].state, sum |-> statistics[i].sum]
    IN  [t \in DOMAIN rows \cup starts |-> IF t \in starts THEN RowOf(t) ELSE rows[t]]

\* inject_historical_data(hass, sensor, now): the rows of the sensor afterwards.
InjectHistoricalData(sensor_type, readings, rows) ==
    IF ~readings.loaded THEN rows
    ELSE LET statistics == Statistics(sensor_type, readings, rows)
         IN  IF statistics # << >> THEN ImportStatistics(rows, statistics) ELSE rows

\* ------------------------------------------------ the remote metering API
\* The resources of the virtual entity, in the order the API lists them.
Resources == << "electricity consumption", "electricity cost", "gas consumption" >>

\* "electricity" if "electricity" in resource_name else "gas"
ResourceTypeOfName(resource_name) ==
    IF resource_name \in {"electricity consumption", "electricity cost"}
    THEN "electricity" ELSE "gas"

\* "cost" if "cost" in resource_name else "consumption"
DataTypeOfName(resource_name) ==
    IF resource_name = "electricity cost" THEN "cost" ELSE "consumption"

\* datetime.utcnow() of a poll, in minutes: the polls run PollMinute minutes
\* past the hour.
UtcNow(hour) == hour * 60 + PollMinute

\* end_date with the current hour kept: no "- timedelta(hours=1)".
EndDateNoSkip(utcnow) == TruncateToHour(utcnow) * 60

\* end_date = utcnow.replace(minute=0, ...) - 1h, in minutes.
EndDate(utcnow) == TruncateToHour(utcnow) * 60 - 60

\* start_date = end_date - 23h, in minutes.
StartDate(utcnow) == EndDate(utcnow) - WindowSpan * 60

\* The hours the API has readings for within [from, to]; the meter starts at hour 0.
Window(utcnow) ==
    { h \in 0..MaxNow : StartDate(utcnow) <= h * 60 /\ h * 60 <= EndDate(utcnow) }

\* What the API may answer for one hour of electricity consumption: nothing yet,
\* two half-hour readings, or one of two hourly readings.
HourOptions(h) ==
    { << >>,
      << << h * 60, 14 >>, << h * 60 + 30, 14 >> >>,
      << << h * 60, 40 >> >>,
      << << h * 60, 50 >> >> }

\* One hourly reading of the same value for every hour of the list.
RECURSIVE Flat(_, _)
Flat(hours, value) ==
    IF hours = << >> THEN << >>
    ELSE << << Head(hours) * 60, value >> >> \o Flat(Tail(hours), value)

\* The cost of every hour of the list is 250 pence: as two half-hour readings
\* for the even hours, as one hourly reading for the odd hours.
RECURSIVE CostBody(_)
CostBody(hours) ==
    IF hours = << >> THEN << >>
    ELSE LET h == Head(hours)
         IN  (IF h % 2 = 0
              THEN << << h * 60, 125 >>, << h * 60 + 30, 125 >> >>
              ELSE << << h * 60, 250 >> >>) \o CostBody(Tail(hours))

RECURSIVE HourlyBodies(_)
HourlyBodies(hours) ==
    IF hours = << >> THEN { << >> }
    ELSE { first \o rest : first \in HourOptions(Head(hours)),
                           rest \in HourlyBodies(Tail(hours)) }

\* The "data" lists the API may return for a resource: [time, value] pairs.
Bodies(resource_name, utcnow) ==
    LET hours == SortedSeq(Window(utcnow))
    IN  CASE resource_name = "electricity consumption" -> HourlyBodies(hours)
          [] resource_name = "electricity cost" -> { CostBody(hours) }
          [] OTHER -> { Flat(hours, 30) }

\* The outcome of one readings request: a body, or one of the failures.
Responses(resource_name, utcnow) ==
    { [kind |-> "ok", body |-> b] :
          b \in Bodies(resource_name, utcnow) }
    \cup { [kind |-> k, body |-> << >>] :
          k \in {"response_error", "connection_error", "timeout"} }

\* aiohttp.ClientResponseError is caught per resource; anything else leaves the loop.
Raises(response) == response.kind \in {"connection_error", "timeout"}

\* The answers of one poll: one per resource, up to the first that raises.
RECURSIVE Scripts(_, _)
Scripts(i, utcnow) ==
    IF i > Len(Resources) THEN { << >> }
    ELSE { << r >> \o rest :
             r \in { x \in Responses(Resources[i], utcnow) : ~Raises(x) },
             rest \in Scripts(i + 1, utcnow) }
         \cup { << r >> : r \in { x \in Responses(Resources[i], utcnow) : Raises(x) } }

\* ------------------------------------ glowmarkt_api.py: get_hourly_readings
\* One reading of a response: find or create the entry, entry[data_type] += value.
AddEntry(entries, reading, data_type) ==
    LET timestamp == reading[1]
        value     == reading[2]
    IN  IF \E i \in 1..Len(entries) : entries[i].datetime = timestamp
        THEN LET i == CHOOSE k \in 1..Len(entries) :
                          entries[k].datetime = timestamp
                          /\ \A j \in 1..(k - 1) : entries[j].datetime # timestamp
             IN  [entries EXCEPT ![i][data_type] = @ + value]
        ELSE Append(entries,
                    [[datetime |-> timestamp, consumption |-> 0, cost |-> 0]
                        EXCEPT ![data_type] = @ + value])

RECURSIVE AddEntries(_, _, _)
AddEntries(entries, body, data_type) ==
    IF body = << >> THEN entries
    ELSE AddEntries(AddEntry(entries, Head(body), data_type), Tail(body), data_type)

\* The loop over the resources: the readings dict, or raised at the first
\* response that is not a ClientResponseError.
RECURSIVE FetchResources(_, _, _)
FetchResources(i, script, readings) ==
    IF i > Len(Resources) THEN [raised |-> FALSE, readings |-> readings]
    ELSE LET response      == script[i]
             resource_type == ResourceTypeOfName(Resources[i])
             data_type     == DataTypeOfName(Resources[i])
         IN  CASE Raises(response) -> [raised |-> TRUE, readings |-> readings]
               [] response.kind = "response_error" ->
                      FetchResources(i + 1, script, readings)
               [] OTHER ->
                      FetchResources(i + 1, script,
                          [readings EXCEPT ![resource_type] =
                              AddEntries(@, response.body, data_type)])

\* What the API answers during one call of get_hourly_readings; a request that
\* is never reached has the answer "unused" or the empty script.  The answer to
\* send_catchup_request is "ok", "response_error" (a catch-up request of a
\* resource is refused: skipped), or a failure that leaves the method.
Envs(api, utcnow) ==
    LET auths == IF api.token = "none" THEN {"ok", "client_error"} ELSE {"unused"}
        catchups == IF api.initial_load_completed
                    THEN {"ok", "response_error", "client_error", "timeout"}
                    ELSE {"unused"}
        proceeds == {"ok", "response_error", "unused"}
    IN  { [utcnow |-> utcnow, auth |-> a, catchup |-> "unused", list |-> "unused",
           script |-> << >>] :
              a \in auths \ {"ok", "unused"} }
        \cup { [utcnow |-> utcnow, auth |-> a, catchup |-> c, list |-> "unused",
                script |-> << >>] :
              a \in auths \cap {"ok", "unused"}, c \in catchups \ proceeds }
        \cup { [utcnow |-> utcnow, auth |-> a, catchup |-> c, list |-> l,
                script |-> << >>] :
              a \in auths \cap {"ok", "unused"}, c \in catchups \cap proceeds,
              l \in {"client_error", "timeout"} }
        \cup { [utcnow |-> utcnow, auth |-> a, catchup |-> c, list |-> "ok",
                script |-> sc] :
              a \in auths \cap {"ok", "unused"}, c \in catchups \cap proceeds,
              sc \in Scripts(1, utcnow) }

\* The catch-up step with the flag ignored: sent by every poll.
CatchupAlways(api) == TRUE

\* if self.initial_load_completed: await self.send_catchup_request()
CatchupDue(api) == api.initial_load_completed

\* get_hourly_readings on api = [token, initial_load_completed], the server
\* accepting the cached token iff valid.  A request sent with a token the server
\* no longer accepts is answered 401, a ClientResponseError.
GetHourlyReadings(api, valid, env) ==
    LET utcnow      == env.utcnow
        need_auth   == api.token = "none"
        auth_raised == need_auth /\ env.auth # "ok"
        token1      == IF need_auth /\ ~auth_raised THEN "tok" ELSE api.token
        valid1      == IF need_auth /\ ~auth_raised THEN TRUE ELSE valid
        do_catchup  == ~auth_raised /\ CatchupDue(api)
        catchup_raised == do_catchup
                          /\ (~valid1 \/ env.catchup \notin {"ok", "response_error"})
        list_sent   == ~auth_raised /\ ~catchup_raised
        list_raised == list_sent /\ (~valid1 \/ env.list # "ok")
        fetched     == list_sent /\ ~list_raised
        fetch       == FetchResources(1, env.script,
                           [loaded |-> TRUE, gas |-> << >>, electricity |-> << >>])
        raised      == auth_raised \/ catchup_raised \/ list_raised
                       \/ (fetched /\ fetch.raised)
    IN  [raised        |-> raised,
         token         |-> token1,
         token_valid   |-> valid1,
         initial_load_completed |-> api.initial_load_completed \/ ~raised,
         readings      |-> IF raised THEN None ELSE fetch.readings,
         auth_calls    |-> IF need_auth THEN 1 ELSE 0,
         unauthorized  |-> (do_catchup \/ list_sent) /\ ~valid1,
         catchup       |-> IF ~do_catchup THEN "none"
                           ELSE IF catchup_raised THEN "raised" ELSE "sent",
         kinds         |-> IF fetched
                           THEN [i \in 1..Len(env.script) |-> env.script[i].kind]
                           ELSE << >>,
         partial       |-> IF fetched THEN fetch.readings ELSE None,
         params        |-> IF fetched /\ env.script # << >>
                           THEN << [from |-> StartDate(utcnow), to |-> EndDate(utcnow)] >>
                           ELSE << >>,
         steps         |-> (IF need_auth THEN << "authenticate" >> ELSE << >>)
                           \o (IF do_catchup THEN << "catchup_list" >> ELSE << >>)
                           \o (IF do_catchup /\ ~catchup_raised
                               THEN << "catchup", "sleep" >> ELSE << >>)
                           \o (IF list_sent THEN << "list" >> ELSE << >>)
                           \o (IF fetched THEN << "readings" >> ELSE << >>)]

\* The history record of a poll; fetched is the number of fetches the
\* GlowmarktAPI instance had completed when the poll began.
PollRecord(r, fetched) ==
    [op |-> "poll", raised |-> r.raised, auth_calls |-> r.auth_calls,
     unauthorized |-> r.unauthorized, catchup |-> r.catchup, kinds |-> r.kinds,
     partial |-> r.partial, params |-> r.params, steps |-> r.steps,
     fetched |-> fetched]

\* ---------------------------------------------------- sensor.py: the passes
\* update_historical_data(now): for sensor in entities: inject_historical_data
RECURSIVE InjectAll(_, _, _)
InjectAll(sensors, readings, st) ==
    IF sensors = << >> THEN st
    ELSE InjectAll(Tail(sensors), readings,
             [st EXCEPT ![Head(sensors)] =
                 InjectHistoricalData(Head(sensors), readings, @)])

\* Some pass of the cycle observes, for a persisted hour, a value other than
\* its persisted state.
Revises(sensors, readings, st) ==
    /\ readings.loaded
    /\ \E i \in 1..Len(sensors) :
          LET hourly_data == Batch(sensors[i], readings)
              rows == st[sensors[i]]
          IN  \E t \in DOMAIN hourly_data \cap DOMAIN rows :
                  Round3(hourly_data[t]) # rows[t].state

\* The history record of a cycle of passes: the rows before, the lists emitted.
InjectRecord(sensors, readings, st) ==
    [op |-> "inject", tail |-> st,
     statistics |-> [s \in Sensors |->
         IF readings.loaded /\ \E i \in 1..Len(sensors) : sensors[i] = s
         THEN Statistics(s, readings, st[s]) ELSE << >>]]

\* ------------------------------------------------------------------ state
Init ==
    /\ now = 1
    /\ token = "none"
    /\ token_valid = FALSE
    /\ initial_load_completed = FALSE
    /\ data = None
    /\ entities = << >>
    /\ store = [s \in Sensors |-> EmptyMap]
    /\ polls = 0
    /\ hist = [kinds |-> << >>, revised |-> FALSE, fetched |-> 0, steps |-> << >>]
    /\ last = [op |-> "init"]
    /\ tasks = << >>

\* async_setup_entry: a new GlowmarktAPI, the coordinator's first refresh (a
\* failure is ConfigEntryNotReady: the setup is retried from scratch), the four
\* sensors, one immediate update_historical_data, and the interval timer.
AsyncSetupEntry ==
    /\ entities = << >>
    /\ polls < MaxPolls
    /\ polls' = polls + 1
    /\ LET api == [token |-> "none", initial_load_completed |-> FALSE]
       IN  \E env \in Envs(api, UtcNow(now)) :
             LET r == GetHourlyReadings(api, FALSE, env)
             IN  IF r.raised
                 THEN /\ last' = PollRecord(r, 0)
                      /\ UNCHANGED <<token, token_valid, initial_load_completed,
                                     data, entities, store, hist>>
                 ELSE /\ token' = r.token
                      /\ token_valid' = r.token_valid
                      /\ initial_load_completed' = r.initial_load_completed
                      /\ data' = r.readings
                      /\ entities' = SensorTypes
                      /\ store' = InjectAll(SensorTypes, r.readings, store)
                      /\ last' = InjectRecord(SensorTypes, r.readings, store)
                      /\ hist' = [kinds |-> r.kinds,
                                  revised |-> Revises(SensorTypes, r.readings, store),
                                  fetched |-> 1, steps |-> r.steps]
    /\ UNCHANGED <<now, tasks>>

\* The coordinator's interval refresh: async_update_data -> get_hourly_readings.
\* DataUpdateCoordinator keeps the previous data when the update method raises.
AsyncUpdateData ==
    /\ entities # << >>
    /\ polls < MaxPolls
    /\ polls' = polls + 1
    /\ LET api == [token |-> token, initial_load_completed |-> initial_load_completed]
       IN  \E env \in Envs(api, UtcNow(now)) :
             LET r == GetHourlyReadings(api, token_valid, env)
             IN  /\ token' = r.token
                 /\ token_valid' = r.token_valid
                 /\ initial_load_completed' = r.initial_load_completed
                 /\ data' = IF r.raised THEN data ELSE r.readings
                 /\ hist' = IF r.raised THEN hist
                            ELSE [hist EXCEPT !.kinds = r.kinds, !.fetched = @ + 1,
                                              !.steps = r.steps]
                 /\ last' = PollRecord(r, hist.fetched)
    /\ UNCHANGED <<now, entities, store, tasks>>

\* The interval timer of async_setup_entry: update_historical_data(now).
UpdateHistoricalData ==
    /\ entities # << >>
    /\ store' = InjectAll(entities, data, store)
    /\ last' = InjectRecord(entities, data, store)
    /\ hist' = [hist EXCEPT !.revised = @ \/ Revises(entities, data, store)]
    /\ UNCHANGED <<now, token, token_valid, initial_load_completed, data, entities, polls, tasks>>

\* An hour passes.
Tick ==
    /\ now < MaxNow
    /\ now' = now + 1
    /\ last' = [op |-> "tick"]
    /\ UNCHANGED <<token, token_valid, initial_load_completed, data, entities, store, polls, hist, tasks>>

\* The server stops accepting the token the fetcher has cached.
TokenExpire ==
    /\ token = "tok"
    /\ token_valid
    /\ token_valid' = FALSE
    /\ last' = [op |-> "expire"]
    /\ UNCHANGED <<now, token, initial_load_completed, data, entities, store, polls, hist, tasks>>

Next ==
    \/ AsyncSetupEntry
    \/ AsyncUpdateData
    \/ UpdateHistoricalData
    \/ Tick
    \/ TokenExpire

Spec == Init /\ [][Next]_vars

\* ------------------------------------- sensor.py: the passes, await by await
\* The timer starts update_historical_data as a task of its own every 20
\* minutes, whether or not the task of an earlier interval has finished.  A
\* task is [i, phase, statistics, failed]: it is at entities[i], suspended
\* either in the tail read (phase "read") or, the statistics computed, in the
\* import (phase "import"); failed holds the positions of the sensors whose
\* tail read has raised in this cycle.

\* The sequence without its k-th element.
RemoveAt(seq, k) == [j \in 1..(Len(seq) - 1) |-> IF j < k THEN seq[j] ELSE seq[j + 1]]

\* The pass of entities[tasks[k].i] has returned: the loop of
\* update_historical_data goes on to the next sensor, or the task ends.
Advance(k) ==
    IF tasks[k].i < Len(entities)
    THEN [tasks EXCEPT ![k] = [i |-> @.i + 1, phase |-> "read", statistics |-> << >>,
                               failed |-> @.failed]]
    ELSE RemoveAt(tasks, k)

\* The exception of a pass leaving update_historical_data: the task ends.
AbortCycle(k, failed) == RemoveAt(tasks, k)

\* except Exception: the error is logged, inject_historical_data returns and
\* the loop goes on; failed is the set of failed positions of the cycle.
AfterError(k, failed) ==
    IF tasks[k].i < Len(entities)
    THEN [tasks EXCEPT ![k] = [i |-> @.i + 1, phase |-> "read", statistics |-> << >>,
                               failed |-> failed]]
    ELSE RemoveAt(tasks, k)

\* async_track_time_interval fires: a new task enters the pass of the first sensor.
TimerFires ==
    /\ entities # << >>
    /\ Len(tasks) < MaxTasks
    /\ tasks' = Append(tasks, [i |-> 1, phase |-> "read", statistics |-> << >>,
                                failed |-> {}])
    /\ last' = [op |-> "timer"]
    /\ UNCHANGED <<now, token, token_valid, initial_load_completed, data, entities,
                   store, polls, hist>>

\* The tail read of a task returns: the statistics are computed from it and the
\* task suspends in the import, or, with nothing to import, the pass returns.
ReadTail(k) ==
    /\ tasks[k].phase = "read"
    /\ LET sensor_type == entities[tasks[k].i]
           statistics  == IF data.loaded
                          THEN Statistics(sensor_type, data, store[sensor_type])
                          ELSE << >>
       IN  tasks' = IF statistics = << >> THEN Advance(k)
                    ELSE [tasks EXCEPT ![k] = [i |-> @.i, phase |-> "import",
                                               statistics |-> statistics,
                                               failed |-> @.failed]]
    /\ last' = [op |-> "read"]
    /\ UNCHANGED <<now, token, token_valid, initial_load_completed, data, entities,
                   store, polls, hist>>

\* The tail read of a task raises (the recorder is unavailable): the except
\* clause ends the pass before any statistics are computed or imported.
ReadTailFails(k) ==
    /\ tasks[k].phase = "read"
    /\ data.loaded
    /\ tasks' = AfterError(k, tasks[k].failed \cup {tasks[k].i})
    /\ last' = [op |-> "read_failed", k |-> k, i |-> tasks[k].i, before |-> Len(tasks),
                tail |-> store]
    /\ UNCHANGED <<now, token, token_valid, initial_load_completed, data, entities,
                   store, polls, hist>>

\* The import of a task is done: its statistics are upserted, the pass returns.
Import(k) ==
    /\ tasks[k].phase = "import"
    /\ store' = [store EXCEPT ![entities[tasks[k].i]] =
                     ImportStatistics(@, tasks[k].statistics)]
    /\ tasks' = Advance(k)
    /\ last' = [op |-> "import"]
    /\ UNCHANGED <<now, token, token_valid, initial_load_completed, data, entities,
                   polls, hist>>

\* The setup and the history timer, with the passes taken await by await.
NextConc ==
    \/ AsyncSetupEntry
    \/ TimerFires
    \/ \E k \in 1..Len(tasks) : ReadTail(k)
    \/ \E k \in 1..Len(tasks) : ReadTailFails(k)
    \/ \E k \in 1..Len(tasks) : Import(k)

SpecConc == Init /\ [][NextConc]_vars

\* ----------------------------------------------------------------- claims
\* t and u are adjacent persisted hours of a series.
Adjacent(rows, t, u) ==
    /\ t \in DOMAIN rows
    /\ u \in DOMAIN rows
    /\ t < u
    /\ \A w \in DOMAIN rows : ~(t < w /\ w < u)

LatestStart(rows) == CHOOSE t \in DOMAIN rows : \A u \in DOMAIN rows : u <= t

RECURSIVE SumOfStates(_, _)
SumOfStates(rows, starts) ==
    IF starts = {} THEN 0
    ELSE LET t == CHOOSE x \in starts : TRUE
         IN  rows[t].state + SumOfStates(rows, starts \ {t})

\* The most recent handler was a cycle of passes over data.
Injected == last.op = "inject" /\ data.loaded

\* lastKnownSum as the claims define it for the i-th emitted point of a pass:
\* the sum of the point emitted before it, or the sum of the latest-hour
\* existing point, or 0 when the tail is empty.
LastKnownSumAt(tail, emitted, i) ==
    IF i > 1 THEN emitted[i - 1].sum
    ELSE IF DOMAIN tail = {} THEN 0 ELSE tail[LatestStart(tail)].sum

\* C1: every pair of adjacent persisted points of a series satisfies
\* cumulativeSum[h] = cumulativeSum[previous persisted hour] + state[h].
C1_SumChain ==
    \A s \in Sensors : \A t, u \in DOMAIN store[s] :
        Adjacent(store[s], t, u) => store[s][u].sum = store[s][t].sum + store[s][u].state

\* C2: with every observed value non-negative, the cumulativeSum of adjacent
\* persisted points never decreases in hour order.
C2_MonotonicSum ==
    \A s \in Sensors :
        (\A t \in DOMAIN store[s] : store[s][t].state >= 0)
        => \A t, u \in DOMAIN store[s] :
               Adjacent(store[s], t, u) => store[s][u].sum >= store[s][t].sum

\* C3: every hour of the batch that has no point in the tail is emitted as
\* {h, v, lastKnownSum + v}, v being the hour's rounded bucket value.
C3_NewHourInsertion ==
    Injected =>
        \A s \in Sensors :
            LET tail == last.tail[s]
                emitted == last.statistics[s]
                hourly_data == Batch(s, data)
            IN  /\ \A t \in DOMAIN hourly_data \ DOMAIN tail :
                       \E i \in 1..Len(emitted) : emitted[i].start = t
                /\ \A i \in 1..Len(emitted) :
                       emitted[i].start \notin DOMAIN tail =>
                           /\ emitted[i].state = Round3(hourly_data[emitted[i].start])
                           /\ emitted[i].sum =
                                  LastKnownSumAt(tail, emitted, i) + emitted[i].state

\* C3 witness: a pass over a non-empty tail inserted a new hour of positive value
\* first in its batch, and the row is persisted.
C3_Witness ==
    /\ Injected
    /\ \E s \in Sensors :
          /\ DOMAIN last.tail[s] # {}
          /\ Len(last.statistics[s]) >= 1
          /\ LET p == last.statistics[s][1]
             IN  /\ p.start \notin DOMAIN last.tail[s]
                 /\ p.state > 0
                 /\ p.sum = last.tail[s][LatestStart(last.tail[s])].sum + p.state
                 /\ store[s][p.start] = [state |-> p.state, sum |-> p.sum]

\* C4: an hour that exists in the tail with state s and is observed with a
\* changed value v is emitted as {h, v, lastKnownSum + (v - s)}.
C4_RevisionCorrection ==
    Injected =>
        \A s \in Sensors :
            LET tail == last.tail[s]
                emitted == last.statistics[s]
            IN  \A i \in 1..Len(emitted) :
                    (/\ emitted[i].start \in DOMAIN tail
                     /\ emitted[i].state # tail[emitted[i].start].state)
                    => emitted[i].sum = LastKnownSumAt(tail, emitted, i)
                           + (emitted[i].state - tail[emitted[i].start].state)

\* C5: an observation whose value is 0 is never emitted as a point.
C5_ZeroNeverEmitted ==
    Injected =>
        \A s \in Sensors : \A i \in 1..Len(last.statistics[s]) :
            last.statistics[s][i].state # 0

\* C6: when the electricity consumption request of the poll behind data failed
\* and the electricity cost request succeeded, the pass of the consumption
\* series overwrites no persisted point.
C6_FailureLeavesRowsUntouched ==
    (/\ Injected
     /\ Len(hist.kinds) = Len(Resources)
     /\ hist.kinds[1] = "response_error"
     /\ hist.kinds[2] = "ok")
    => \A t \in DOMAIN last.tail["electricity_consumption"] :
           store["electricity_consumption"][t] = last.tail["electricity_consumption"][t]

\* C7: a pass in which no observed value is lower than the value persisted for
\* its hour lowers the persisted cumulativeSum of no hour.
C7_NoRegression ==
    Injected =>
        \A s \in Sensors :
            LET tail == last.tail[s]
                hourly_data == Batch(s, data)
            IN  (\A t \in DOMAIN hourly_data \cap DOMAIN tail :
                     Round3(hourly_data[t]) >= tail[t].state)
                => \A t \in DOMAIN tail : store[s][t].sum >= tail[t].sum

\* C8: while no persisted hour has been revised, the cumulativeSum of the latest
\* persisted hour is the sum of the values of all persisted hours.
C8_CountedOnce ==
    ~hist.revised =>
        \A s \in Sensors :
            DOMAIN store[s] # {} =>
                store[s][LatestStart(store[s])].sum = SumOfStates(store[s], DOMAIN store[s])

\* C9: a poll in which a request is rejected as unauthorized re-authenticates.
C9_ReauthOnUnauthorized ==
    (last.op = "poll" /\ last.unauthorized) => last.auth_calls >= 1

\* C10: a poll in which the readings request of a resource times out or hits a
\* connection error still returns the readings of the other resources.
C10_PerSeriesCancellation ==
    (/\ last.op = "poll"
     /\ \E i, j \in 1..Len(last.kinds) :
            /\ last.kinds[i] \in {"timeout", "connection_error"}
            /\ last.kinds[j] = "ok"
     /\ last.partial.electricity # << >>)
    => (~last.raised /\ data = last.partial)

\* C13: every readings request has 'to' = now truncated to the hour minus 1 hour
\* and 'from' = now truncated to the hour minus 24 hours, so the hour in
\* progress is never in the window.
C13_WindowBoundary ==
    last.op = "poll" =>
        \A i \in 1..Len(last.params) :
            /\ last.params[i].to = now * 60 - 60
            /\ last.params[i].from = now * 60 - 24 * 60
            /\ last.params[i].to < now * 60

\* C13 witness: a poll past the full hour has requested readings.
C13_Witness ==
    /\ last.op = "poll"
    /\ ~last.raised
    /\ last.params # << >>
    /\ UtcNow(now) > now * 60
    /\ last.params[1].to = now * 60 - 60

\* The raw values of one key of the readings that fall into an hour, added up.
RECURSIVE RawSum(_, _, _)
RawSum(readings, data_type, hour) ==
    IF readings = << >> THEN 0
    ELSE (IF Head(readings).datetime \div 60 = hour THEN Head(readings)[data_type] ELSE 0)
         + RawSum(Tail(readings), data_type, hour)

\* The number of readings that fall into an hour.
ReadingsIn(readings, hour) ==
    Cardinality({ k \in 1..Len(readings) : readings[k].datetime \div 60 = hour })

\* C14: a cost point enters the reconciliation as raw pence / 100 (250 -> 2.50,
\* the raw points of one hour converted and added up); a consumption point
\* enters with its raw value.
C14_UnitConversion ==
    Injected =>
        \A s \in Sensors :
            \A i \in 1..Len(last.statistics[s]) :
                LET p   == last.statistics[s][i]
                    raw == RawSum(data[ResourceTypeOf(s)], DataTypeOf(s), p.start)
                IN  IF DataTypeOf(s) = "cost"
                    THEN p.state * 100 = raw * 10000
                    ELSE p.state = Round3(raw)

\* C14 witness: a pass has emitted a cost point of 2.50 for an hour with two
\* raw points of 125 pence, and a consumption point equal to its raw value.
C14_Witness ==
    /\ Injected
    /\ \E i \in 1..Len(last.statistics["electricity_cost"]) :
           LET p == last.statistics["electricity_cost"][i]
           IN  /\ ReadingsIn(data.electricity, p.start) = 2
               /\ RawSum(data.electricity, "cost", p.start) = 250
               /\ p.state = 25000
    /\ \E i \in 1..Len(last.statistics["electricity_consumption"]) :
           LET p == last.statistics["electricity_consumption"][i]
           IN  /\ p.state = 40
               /\ RawSum(data.electricity, "consumption", p.start) = 40

\* The batch hours of a sensor that the pass found persisted with another state.
RevisedHours(s) ==
    { i \in 1..Len(last.statistics[s]) :
          /\ last.statistics[s][i].start \in DOMAIN last.tail[s]
          /\ last.statistics[s][i].state # last.tail[s][last.statistics[s][i].start].state }

\* C15: when a pass revises exactly one hour of a batch by delta (more than the
\* threshold), every later hour of the batch that is persisted with an
\* unchanged value is emitted with its persisted sum shifted by delta.
C15_ForwardPropagation ==
    Injected =>
        \A s \in Sensors :
            \A i \in RevisedHours(s) :
                LET emitted == last.statistics[s]
                    tail    == last.tail[s]
                    delta   == emitted[i].state - tail[emitted[i].start].state
                IN  (RevisedHours(s) = {i} /\ Abs(delta) > Epsilon) =>
                        \A j \in (i + 1)..Len(emitted) :
                            emitted[j].start \in DOMAIN tail =>
                                emitted[j].sum = tail[emitted[j].start].sum + delta

\* C16: a batch hour persisted with the same value is emitted with exactly its
\* persisted sum, and the next hour of the batch continues from that persisted
\* sum: a new hour gets it plus its value, a revised hour gets it plus its
\* delta.
C16_UnchangedReemit ==
    Injected =>
        \A s \in Sensors :
            \A i \in 1..Len(last.statistics[s]) :
                LET emitted == last.statistics[s]
                    tail    == last.tail[s]
                    p       == emitted[i]
                IN  (p.start \in DOMAIN tail /\ p.state = tail[p.start].state) =>
                        /\ p.sum = tail[p.start].sum
                        /\ i < Len(emitted) =>
                               LET q == emitted[i + 1]
                               IN  IF q.start \notin DOMAIN tail
                                   THEN q.sum = tail[p.start].sum + q.state
                                   ELSE Abs(q.state - tail[q.start].state) > Epsilon =>
                                            q.sum = tail[p.start].sum
                                                    + (q.state - tail[q.start].state)

\* C16 witness: a pass has re-emitted an unchanged persisted hour with a
\* non-zero sum and then emitted a new hour after it.
C16_Witness ==
    /\ Injected
    /\ \E s \in Sensors :
           \E i \in 1..(Len(last.statistics[s]) - 1) :
               LET emitted == last.statistics[s]
                   tail    == last.tail[s]
               IN  /\ emitted[i].start \in DOMAIN tail
                   /\ emitted[i].state = tail[emitted[i].start].state
                   /\ emitted[i].sum = tail[emitted[i].start].sum
                   /\ emitted[i].sum > 0
                   /\ emitted[i + 1].start \notin DOMAIN tail
                   /\ emitted[i + 1].state > 0

\* C17: a persisted hour counts as unchanged only when |v - existingState| is
\* below 0.001; at a difference of 0.001 or more the sum is adjusted by the
\* delta, so no point is emitted whose state differs from the persisted state
\* by that much while its sum is the unadjusted persisted sum.
C17_ChangeThreshold ==
    Injected =>
        \A s \in Sensors :
            \A i \in 1..Len(last.statistics[s]) :
                LET emitted == last.statistics[s]
                    tail    == last.tail[s]
                    p       == emitted[i]
                IN  (p.start \in DOMAIN tail /\ Abs(p.state - tail[p.start].state) >= Epsilon) =>
                        p.sum = LastKnownSumAt(tail, emitted, i)
                                + (p.state - tail[p.start].state)

\* The hours for which the readings of a resource hold at least one raw reading.
HoursOf(readings) == { readings[k].datetime \div 60 : k \in 1..Len(readings) }

\* C20: the raw readings of one hour go into one bucket, so a pass emits exactly
\* one point for every hour that has readings and the emitted list is strictly
\* ascending by hour.
C20_OnePointPerHour ==
    Injected =>
        \A s \in Sensors :
            LET emitted == last.statistics[s]
                hours   == HoursOf(data[ResourceTypeOf(s)])
            IN  /\ Len(emitted) = Cardinality(hours)
                /\ \A i \in 1..Len(emitted) : emitted[i].start \in hours
                /\ \A i \in 1..(Len(emitted) - 1) : emitted[i].start < emitted[i + 1].start

\* C20 witness: a pass has emitted two hours in ascending order, the first of
\* them the single point (0.003) of two half-hour readings of 0.0014.
C20_Witness ==
    /\ Injected
    /\ Len(last.statistics["electricity_consumption"]) = 2
    /\ ReadingsIn(data.electricity, 0) = 2
    /\ RawSum(data.electricity, "consumption", 0) = 28
    /\ last.statistics["electricity_consumption"][1].start = 0
    /\ last.statistics["electricity_consumption"][1].state = 30
    /\ last.statistics["electricity_consumption"][2].start = 1

\* The requests of the catch-up step are among the steps of a poll.
SendsCatchup(steps) ==
    \E k \in 1..Len(steps) : steps[k] \in {"catchup_list", "catchup", "sleep"}

\* The catch-up step opens the poll, and the resources are listed only after
\* the catch-up requests and the grace delay.
CatchupFirst(steps) ==
    /\ steps # << >>
    /\ steps[1] = "catchup_list"
    /\ \A k \in 1..Len(steps) :
           steps[k] = "list" => (k = 4 /\ steps[2] = "catchup" /\ steps[3] = "sleep")

\* C18: the first poll of a GlowmarktAPI instance, and any poll of an instance
\* that has completed no fetch, sends no catch-up request; every poll that
\* starts after a completed fetch begins with the catch-up step, and lists the
\* resources and requests readings only after the catch-up requests and the
\* grace delay.
C18_CatchupOrdering ==
    /\ last.op = "poll" =>
           IF last.fetched = 0 THEN ~SendsCatchup(last.steps)
           ELSE CatchupFirst(last.steps)
    /\ hist.fetched = 1 => ~SendsCatchup(hist.steps)
    /\ hist.fetched > 1 => CatchupFirst(hist.steps)

\* C18 witness: the first fetch of the instance was completed without catch-up,
\* and the poll after it has sent the catch-up requests, waited, and fetched.
C18_Witness ==
    /\ last.op = "poll"
    /\ ~last.raised
    /\ last.fetched = 1
    /\ hist.fetched = 2
    /\ last.steps = << "catchup_list", "catchup", "sleep", "list", "readings" >>

\* C19: a failure of the catch-up step (the entity listing or a catch-up
\* request failing or timing out, the token still accepted) does not keep the
\* same poll from listing the resources and requesting the readings.
C19_CatchupFireAndForget ==
    (last.op = "poll" /\ last.catchup = "raised" /\ ~last.unauthorized) =>
        \E k \in 1..Len(last.steps) : last.steps[k] = "readings"

\* C12: at no time are two passes for the same series both between their tail
\* read and their upsert.
C12_MutualExclusion ==
    \A j, k \in 1..Len(tasks) :
        (j # k /\ tasks[j].phase = "import" /\ tasks[k].phase = "import") =>
            tasks[j].i # tasks[k].i

\* C21: when the tail read of a pass fails, nothing is upserted for that series
\* in this cycle (the store is as before, and the task never imports for a
\* sensor whose tail read failed), the error does not leave the cycle, and the
\* passes of the remaining sensors still run: the task goes on with the next
\* sensor, or ends normally after the last one.
C21_TailReadFailure ==
    /\ last.op = "read_failed" =>
           /\ store = last.tail
           /\ IF last.i < Len(entities)
              THEN /\ Len(tasks) = last.before
                   /\ tasks[last.k].i = last.i + 1
                   /\ tasks[last.k].phase = "read"
              ELSE Len(tasks) = last.before - 1
    /\ \A k \in 1..Len(tasks) :
           \A i \in tasks[k].failed : tasks[k].i > i

\* C21 witness: the tail read of the first sensor failed, and the same cycle
\* has gone on to the import of a later sensor.
C21_Witness ==
    \E k \in 1..Len(tasks) :
        /\ 1 \in tasks[k].failed
        /\ tasks[k].i > 1
        /\ tasks[k].phase = "import"
        /\ tasks[k].statistics # << >>
        /\ store[entities[1]] # EmptyMap

\* C22: a pass upserts points only for the hours of its own batch: after a
\* cycle, every series holds all the hours it held before, a persisted point
\* whose hour is not in the batch of its series keeps its state and sum, a hour
\* of the batch holds the point the pass of its series emitted, and no other
\* hour has appeared.
C22_Frame ==
    Injected =>
        \A s \in Sensors :
            LET tail    == last.tail[s]
                emitted == last.statistics[s]
                hours   == HoursOf(data[ResourceTypeOf(s)])
            IN  /\ DOMAIN store[s] = DOMAIN tail \cup hours
                /\ \A t \in DOMAIN tail \ hours : store[s][t] = tail[t]
                /\ \A t \in hours :
                       \E i \in 1..Len(emitted) :
                           /\ emitted[i].start = t
                           /\ store[s][t] = [state |-> emitted[i].state,
                                             sum |-> emitted[i].sum]

\* C22 witness: a pass has upserted a hour of its batch while another hour of
\* the same series, persisted but absent from the batch, kept its point.
C22_Witness ==
    /\ Injected
    /\ \E s \in Sensors :
           \E t \in DOMAIN last.tail[s] :
               /\ t \notin HoursOf(data[ResourceTypeOf(s)])
               /\ last.statistics[s] # << >>
               /\ last.tail[s][t].sum > 0
               /\ store[s][t] = last.tail[s][t]
               /\ store[s] # last.tail[s]

\* C23: once the points emitted by a pass are upserted, reconciling the same
\* batch against the updated rows emits, for every hour of the batch, exactly
\* the state and sum now persisted for it, so applying it changes no row.
C23_FixedPoint ==
    Injected =>
        \A s \in Sensors :
            LET again == Statistics(s, data, store[s])
            IN  /\ Len(again) = Len(last.statistics[s])
                /\ \A i \in 1..Len(again) :
                       /\ again[i].start \in DOMAIN store[s]
                       /\ again[i].state = store[s][again[i].start].state
                       /\ again[i].sum = store[s][again[i].start].sum
                /\ InjectHistoricalData(s, data, store[s]) = store[s]

\* C23 witness: a pass that revised a persisted hour and added a new one has
\* been applied, and the rows hold what it emitted.
C23_Witness ==
    /\ Injected
    /\ \E s \in Sensors :
           LET emitted == last.statistics[s]
               tail    == last.tail[s]
           IN  /\ Len(emitted) = 2
               /\ emitted[1].start \in DOMAIN tail
               /\ Abs(emitted[1].state - tail[emitted[1].start].state) > Epsilon
               /\ emitted[2].start \notin DOMAIN tail
               /\ store[s][emitted[2].start].sum = emitted[2].sum
               /\ Statistics(s, data, store[s]) = emitted

====
